---- MODULE Spec2Model ----
(***************************************************************************)
(* Weight Sync Manager (Weight_Sync_Manager.py): export of a mesh's vertex *)
(* group weights to a JSON document, import of such a document, the four   *)
(* operators (Save, Load, Resync, Clear) and the deferred resync timer     *)
(* registered after a file is opened.                                      *)
(*                                                                         *)
(* Weights are floats in [0.0, 1.0]; they are modelled as the integers     *)
(* 0..WeightSteps, WeightSteps standing for 1.0.  json.dump / json.load    *)
(* write and read a float by its shortest repr, which is exact, so a       *)
(* weight keeps its value through the file.  The keys of the document's    *)
(* vertex map are strings: str(index) on export, int(key) on import.       *)
(***************************************************************************)
EXTENDS Integers, Sequences, FiniteSets, TLC

\* ------------------------------------------------------------------ bounds
\* The largest mesh, in vertices.
MaxVerts == 2
\* The most vertex groups on an object and names in a document's list.
MaxGroups == 2
\* The weight 1.0, in steps.
WeightSteps == 2
\* The most keys in the vertex map of a hand-made document.
MaxEntries == 1
\* The most file-open events in a session.
MaxEvents == 2

Names == {"Arm", "Leg"}

\* ------------------------------------------------------------- values
\* Python's None as the return value of save_weights and load_weights: no
\* error.
None == "None"
\* No file at a path.
NoFile == [exists |-> FALSE]
\* context.active_object when nothing is active.
NoObject == [type |-> "NONE"]
\* g.weight(i) raises RuntimeError: the vertex is not in the group.
NoW == -1

\* WeightSyncSettings defaults.
DefaultSettings == [weight_file |-> "", is_active |-> FALSE]

\* Paths the file picker can hand to an operator.  The second one lies in a
\* directory that does not exist: open(path, 'w') raises and os.path.exists
\* is false.
GoodPath == "weights.json"
BadPath == "/missing/weights.json"
Paths == {GoodPath, BadPath}
Writable(path) == path = GoodPath

\* ------------------------------------------------------------- strings
Digits == <<"0", "1", "2", "3", "4", "5", "6", "7", "8", "9">>

\* str(v.index + 1): keys counted from one.
RECURSIVE strOneBased(_)
strOneBased(n) == IF n + 1 < 10 THEN <<Digits[n + 2]>>
                  ELSE strOneBased((n + 1) \div 10 - 1) \o <<Digits[((n + 1) % 10) + 1]>>

RECURSIVE str(_)
\* str(v.index): the decimal digits of a natural number.
str(n) == IF n < 10 THEN <<Digits[n + 1]>>
          ELSE str(n \div 10) \o <<Digits[(n % 10) + 1]>>

DigitValue(c) == CHOOSE d \in 0..9 : Digits[d + 1] = c
IsDigit(c) == \E d \in 0..9 : Digits[d + 1] = c

RECURSIVE IntOfDigits(_, _)
IntOfDigits(s, acc) ==
  IF s = <<>> THEN acc
  ELSE IntOfDigits(Tail(s), acc * 10 + DigitValue(Head(s)))

\* int(vertex_idx_str): the number, or ValueError for a string that is not
\* one.
ValueError == -2
int(s) == IF s # <<>> /\ \A i \in 1..Len(s) : IsDigit(s[i])
          THEN IntOfDigits(s, 0)
          ELSE ValueError

\* ------------------------------------------------------------- the mesh
Range(s) == {s[i] : i \in 1..Len(s)}

\* obj.vertex_groups: an ordered collection of groups, each a name and the
\* weight (or NoW) of every vertex.
GroupNames(vgs) == [i \in 1..Len(vgs) |-> vgs[i].name]
HasGroup(vgs, name) == \E i \in 1..Len(vgs) : vgs[i].name = name
GroupIndex(vgs, name) == CHOOSE i \in 1..Len(vgs) : vgs[i].name = name

\* The weight of vertex v in the group called name; NoW when the object has
\* no such group or the vertex is not in it.
WeightOf(vgs, name, v) ==
  IF HasGroup(vgs, name) THEN vgs[GroupIndex(vgs, name)].weights[v] ELSE NoW

\* not (not obj or obj.type != 'MESH')
IsMesh(o) == o.type = "MESH"

\* All the states obj.vertex_groups can be in on a mesh of n vertices whose
\* weights lie in ws: at most MaxGroups groups, names unique.
NameOrders ==
  UNION {{s \in [1..k -> Names] : \A i, j \in 1..k : s[i] = s[j] => i = j} :
         k \in 0..MaxGroups}

VertexGroupStates(n, ws) ==
  UNION {{[i \in 1..Len(s) |-> [name |-> s[i], weights |-> w[i]]] :
            w \in [1..Len(s) -> [0..(n - 1) -> ws]]} :
         s \in NameOrders}

MeshObject(n, vgs, lib) ==
  [type |-> "MESH", name |-> "Body", library |-> lib, nverts |-> n,
   vertex_groups |-> vgs]

\* The vertex counts of the meshes and documents tried: two sizes, so that
\* counts can agree and differ.
VertexCounts == {n \in {MaxVerts - 1, MaxVerts} : n >= 1}

\* Linked meshes of those sizes with weights in ws.
Meshes(ws) ==
  UNION {{MeshObject(n, vgs, TRUE) : vgs \in VertexGroupStates(n, ws)} :
         n \in VertexCounts}

\* The weights a vertex can have in a group: none, 0.0, the smallest
\* positive step, 1.0.
MeshWeights == {NoW, 0, 1, WeightSteps}

\* ------------------------------------------------------------- save_weights
\* Lines 45-52 with weight >= 0.0 for the test of line 48.
RECURSIVE VWeightsKeepZero(_, _, _)
VWeightsKeepZero(vgs, v, i) ==
  IF i > Len(vgs) THEN <<>>
  ELSE LET weight == vgs[i].weights[v] IN
       IF weight # NoW /\ weight >= 0
       THEN <<[group |-> vgs[i].name, weight |-> weight]>> \o VWeightsKeepZero(vgs, v, i + 1)
       ELSE VWeightsKeepZero(vgs, v, i + 1)

\* Lines 45-52: the weights of vertex v, one item per group in the order of
\* obj.vertex_groups; a zero weight and a vertex not in the group are
\* skipped.
RECURSIVE VWeights(_, _, _)
VWeights(vgs, v, i) ==
  IF i > Len(vgs) THEN <<>>
  ELSE LET weight == vgs[i].weights[v] IN
       IF weight # NoW /\ weight > 0
       THEN <<[group |-> vgs[i].name, weight |-> weight]>> \o VWeights(vgs, v, i + 1)
       ELSE VWeights(vgs, v, i + 1)

\* Lines 42-56: weight_data["vertex_groups"], a dict in insertion order:
\* one entry per vertex that has weights, keyed by str(v.index).
RECURSIVE CollectVertexGroups(_, _)
CollectVertexGroups(o, v) ==
  IF v >= o.nverts THEN <<>>
  ELSE LET v_weights == VWeights(o.vertex_groups, v, 1) IN
       IF v_weights # <<>>
       THEN <<[key |-> str(v), groups |-> v_weights]>> \o CollectVertexGroups(o, v + 1)
       ELSE CollectVertexGroups(o, v + 1)

\* Lines 59-64 with both bounds starting at 0.0.
ValidationStartZero(vertex_groups) ==
  [total_vertices_with_weights |-> Len(vertex_groups),
   groups_with_weights |-> {},
   max_weight |-> 0,
   min_weight |-> 0]

\* Lines 59-64: the accumulator the validation pass starts from.
ValidationStart(vertex_groups) ==
  [total_vertices_with_weights |-> Len(vertex_groups),
   groups_with_weights |-> {},
   max_weight |-> 0,
   min_weight |-> WeightSteps]

Max(a, b) == IF a >= b THEN a ELSE b
Min(a, b) == IF a <= b THEN a ELSE b

\* Lines 68-70: one (group, weight) item folded into the accumulator.
ValidationItem(validation, item) ==
  [validation EXCEPT !.groups_with_weights = @ \cup {item.group},
                     !.max_weight = Max(@, item.weight),
                     !.min_weight = Min(@, item.weight)]

RECURSIVE ValidationItems(_, _)
ValidationItems(validation, groups) ==
  IF groups = <<>> THEN validation
  ELSE ValidationItems(ValidationItem(validation, Head(groups)), Tail(groups))

\* Lines 66-70: the second pass, over the collected map.
RECURSIVE ValidationPass(_, _)
ValidationPass(validation, vertex_groups) ==
  IF vertex_groups = <<>> THEN validation
  ELSE ValidationPass(ValidationItems(validation, Head(vertex_groups).groups),
                      Tail(vertex_groups))

\* Lines 34-76: the document.  groups_with_weights is list(set): its order is
\* not determined, the model keeps the set.  keys is the set of keys of the
\* JSON object.
AllKeys == {"object_name", "vertex_count", "group_names", "vertex_groups", "validation"}

WeightData(o) ==
  LET vertex_groups == CollectVertexGroups(o, 0)
      validation == ValidationPass(ValidationStart(vertex_groups), vertex_groups)
  IN [exists |-> TRUE,
      keys |-> AllKeys,
      object_name |-> o.name,
      vertex_count |-> o.nverts,
      group_names |-> GroupNames(o.vertex_groups),
      vertex_groups |-> vertex_groups,
      validation |-> [vertices_with_weights |-> validation.total_vertices_with_weights,
                      groups_with_weights |-> validation.groups_with_weights,
                      weight_range |-> <<validation.min_weight, validation.max_weight>>]]

\* save_weights(obj, filepath) on the file system fs: the error it returns
\* and the files afterwards.
save_weights(o, filepath, fs) ==
  IF ~IsMesh(o) THEN [error |-> "No valid mesh selected", files |-> fs]
  ELSE IF ~Writable(filepath) THEN [error |-> "Error saving weights", files |-> fs]
  ELSE [error |-> None, files |-> [fs EXCEPT ![filepath] = WeightData(o)]]

\* ------------------------------------------------------------- load_weights
\* os.path.exists(filepath)
Exists(fs, filepath) == filepath \in DOMAIN fs /\ fs[filepath].exists

\* Line 104 with < for !=.
VertexCountBelow(o, weight_data) ==
  \/ "vertex_count" \notin weight_data.keys
  \/ o.nverts < weight_data.vertex_count

\* Line 104: len(obj.data.vertices) != weight_data.get("vertex_count").  A
\* document without the key gives None, which differs from every length.
VertexCountDiffers(o, weight_data) ==
  \/ "vertex_count" \notin weight_data.keys
  \/ o.nverts # weight_data.vertex_count

\* The loop of lines 108-109 in the order a list that shrinks under its own
\* iterator would give: every second group survives.
RECURSIVE RemoveEveryOther(_)
RemoveEveryOther(vgs) ==
  IF Len(vgs) <= 1 THEN <<>>
  ELSE <<vgs[2]>> \o RemoveEveryOther(Tail(Tail(vgs)))

\* The loop of lines 108-109 ending after its first removal.
RemoveFirstGroup(vgs) ==
  IF vgs = <<>> THEN <<>> ELSE Tail(vgs)

\* Lines 108-109: for vg in obj.vertex_groups: obj.vertex_groups.remove(vg).
\* The collection's iterator has moved to the next group before it yields
\* the current one, so removing the yielded group does not disturb the
\* traversal: each group is visited and removed.
RECURSIVE RemoveGroups(_)
RemoveGroups(vgs) ==
  IF vgs = <<>> THEN <<>>
  ELSE RemoveGroups(Tail(vgs))

\* obj.vertex_groups.new(name=group_name): a new, empty group at the end.
NewGroup(vgs, n, group_name) ==
  Append(vgs, [name |-> group_name, weights |-> [v \in 0..(n - 1) |-> NoW]])

\* Lines 112-114: create the groups named in the document, skipping a name
\* the object already has.
RECURSIVE CreateGroups(_, _, _)
CreateGroups(vgs, n, group_names) ==
  IF group_names = <<>> THEN vgs
  ELSE IF ~HasGroup(vgs, Head(group_names))
       THEN CreateGroups(NewGroup(vgs, n, Head(group_names)), n, Tail(group_names))
       ELSE CreateGroups(vgs, n, Tail(group_names))

\* Line 124: vgroup.add([vertex_idx], weight, 'REPLACE').
VGroupAdd(vgs, group_name, vertex_idx, weight) ==
  [vgs EXCEPT ![GroupIndex(vgs, group_name)].weights[vertex_idx] = weight]

\* Lines 121-125: the items of one vertex, in order.  obj.vertex_groups[name]
\* raises KeyError for a name the object has no group of; what was applied
\* before stays applied.
RECURSIVE ApplyItems(_, _, _)
ApplyItems(vgs, vertex_idx, groups) ==
  IF groups = <<>> THEN [vgs |-> vgs, raised |-> FALSE]
  ELSE LET item == Head(groups) IN
       IF item.weight > 0
       THEN IF HasGroup(vgs, item.group)
            THEN ApplyItems(VGroupAdd(vgs, item.group, vertex_idx, item.weight),
                            vertex_idx, Tail(groups))
            ELSE [vgs |-> vgs, raised |-> TRUE]
       ELSE ApplyItems(vgs, vertex_idx, Tail(groups))

\* Lines 118-125: the entries of the document's vertex map, in order.  int()
\* raises ValueError for a key that is not a number; an index beyond the
\* mesh is skipped.
RECURSIVE ApplyWeights(_, _, _)
ApplyWeights(vgs, n, vertex_groups) ==
  IF vertex_groups = <<>> THEN [vgs |-> vgs, raised |-> FALSE]
  ELSE LET vertex_idx == int(Head(vertex_groups).key) IN
       IF vertex_idx = ValueError THEN [vgs |-> vgs, raised |-> TRUE]
       ELSE IF vertex_idx < n
       THEN LET r == ApplyItems(vgs, vertex_idx, Head(vertex_groups).groups) IN
            IF r.raised THEN r
            ELSE ApplyWeights(r.vgs, n, Tail(vertex_groups))
       ELSE ApplyWeights(vgs, n, Tail(vertex_groups))

\* Lines 107-133, once the vertex counts agree: the groups afterwards and
\* whether an exception reached the handler of line 132.
Rebuild(o, weight_data) ==
  LET cleared == RemoveGroups(o.vertex_groups) IN
  IF "group_names" \notin weight_data.keys
  THEN [vgs |-> cleared, raised |-> TRUE]
  ELSE LET created == CreateGroups(cleared, o.nverts, weight_data.group_names) IN
       IF "vertex_groups" \notin weight_data.keys
       THEN [vgs |-> created, raised |-> TRUE]
       ELSE ApplyWeights(created, o.nverts, weight_data.vertex_groups)

\* load_weights(obj, filepath) on the file system fs: the error it returns
\* and the object afterwards.
load_weights(o, filepath, fs) ==
  IF ~IsMesh(o) THEN [error |-> "No valid mesh selected", obj |-> o]
  ELSE IF ~Exists(fs, filepath) THEN [error |-> "Weight file not found", obj |-> o]
  ELSE LET weight_data == fs[filepath] IN
       IF VertexCountDiffers(o, weight_data)
       THEN IF "vertex_count" \in weight_data.keys
            THEN [error |-> "Vertex count mismatch", obj |-> o]
            ELSE [error |-> "Error loading weights", obj |-> o]
       ELSE LET r == Rebuild(o, weight_data) IN
            [error |-> IF r.raised THEN "Error loading weights" ELSE None,
             obj |-> [o EXCEPT !.vertex_groups = r.vgs]]

\* ------------------------------------------------------------- state
VARIABLES
  obj,          \* context.active_object, the one object of the scene
  files,        \* the file system: per path, the document or NoFile
  settings,     \* context.scene.weight_sync_settings
  scene_ready,  \* bpy.context.scene is not None
  timers,       \* per file-open event, the do_resync callback it registered
  last,         \* history: the operation that ran last, with what it saw
  exported,     \* history: the object save_weights last wrote to GoodPath
  cleared       \* history: Clear ran, and no Save or Load succeeded since

vars == <<obj, files, settings, scene_ready, timers, last, exported, cleared>>

Events == 1..MaxEvents

\* A timer slot: state is "unused" (the event has not happened), "skipped"
\* (line 139: the file was never saved), "pending" (registered with
\* bpy.app.timers) or "done" (do_resync returned None); requeued and passes
\* count what the callback did.
NoTimer == [state |-> "unused", requeued |-> FALSE, passes |-> 0]

NoOp == [op |-> "none", path |-> "", error |-> None, invoked |-> FALSE,
         repeat |-> FALSE, event |-> 0, pre_obj |-> NoObject,
         pre_settings |-> DefaultSettings, pre_scene |-> TRUE,
         pre_cleared |-> FALSE]

\* last after an operation op that handed path to save_weights or
\* load_weights (invoked) or did not, with the error it got.  repeat: this
\* is a call of load_weights that directly follows a call of load_weights
\* with the same path.
Record(op, path, error, invoked, event) ==
  [op |-> op, path |-> path, error |-> error, invoked |-> invoked,
   repeat |-> invoked /\ op # "save" /\ last.invoked /\ last.op # "save"
              /\ last.path = path,
   event |-> event, pre_obj |-> obj, pre_settings |-> settings,
   pre_scene |-> scene_ready, pre_cleared |-> cleared]

\* ------------------------------------------------------------- operators
\* Lines 160-172 with the settings written whatever save_weights returned.
OT_save_unconditional(path) ==
  /\ scene_ready
  /\ LET r == save_weights(obj, path, files) IN
     /\ files' = r.files
     /\ settings' = [weight_file |-> path, is_active |-> TRUE]
     /\ IF r.error # None
        THEN UNCHANGED <<exported, cleared>>
        ELSE /\ exported' = obj
             /\ cleared' = FALSE
     /\ last' = Record("save", path, r.error, TRUE, 0)
  /\ UNCHANGED <<obj, scene_ready, timers>>

\* WEIGHTSYNC_OT_save.execute (lines 160-172) with self.filepath = path.
OT_save(path) ==
  /\ scene_ready
  /\ LET r == save_weights(obj, path, files) IN
     /\ files' = r.files
     /\ IF r.error # None
        THEN UNCHANGED <<settings, exported, cleared>>
        ELSE /\ settings' = [weight_file |-> path, is_active |-> TRUE]
             /\ exported' = obj
             /\ cleared' = FALSE
     /\ last' = Record("save", path, r.error, TRUE, 0)
  /\ UNCHANGED <<obj, scene_ready, timers>>

\* WEIGHTSYNC_OT_load.execute (lines 185-197) with self.filepath = path.
OT_load(path) ==
  /\ scene_ready
  /\ LET r == load_weights(obj, path, files) IN
     /\ obj' = r.obj
     /\ IF r.error # None
        THEN UNCHANGED <<settings, cleared>>
        ELSE /\ settings' = [weight_file |-> path, is_active |-> TRUE]
             /\ cleared' = FALSE
     /\ last' = Record("load", path, r.error, TRUE, 0)
  /\ UNCHANGED <<files, scene_ready, timers, exported>>

\* WEIGHTSYNC_OT_resync.execute (lines 208-223).
OT_resync ==
  /\ scene_ready
  /\ IF ~settings.is_active \/ settings.weight_file = ""
     THEN /\ last' = Record("resync", settings.weight_file, "No active weight file", FALSE, 0)
          /\ UNCHANGED obj
     ELSE LET r == load_weights(obj, settings.weight_file, files) IN
          /\ obj' = r.obj
          /\ last' = Record("resync", settings.weight_file, r.error, TRUE, 0)
  /\ UNCHANGED <<files, settings, scene_ready, timers, exported, cleared>>

\* WEIGHTSYNC_OT_clear.execute (lines 229-234).
OT_clear ==
  /\ scene_ready
  /\ settings' = [weight_file |-> "", is_active |-> FALSE]
  /\ cleared' = TRUE
  /\ last' = Record("clear", "", None, FALSE, 0)
  /\ UNCHANGED <<obj, files, scene_ready, timers, exported>>

\* ------------------------------------------------------------- auto-resync
\* A file is opened and load_post_handler (lines 136-152) runs for it:
\* nothing for a file that was never saved, else do_resync is registered.
\* The scene context may or may not be there yet.
load_post_handler(e, saved, ready) ==
  /\ timers[e].state = "unused"
  /\ \A d \in Events : d < e => timers[d].state # "unused"
  /\ timers' = [timers EXCEPT ![e].state = IF saved THEN "pending" ELSE "skipped"]
  /\ scene_ready' = ready
  /\ last' = Record("file_open", "", None, FALSE, e)
  /\ UNCHANGED <<obj, files, settings, exported, cleared>>

\* Lines 146-148 without the test of the settings.
ResyncsIgnoringSettings(o, s) ==
  /\ o.type = "MESH"
  /\ o.library

\* Line 146-148: the objects of the scene the pass imports into.
Resyncs(o, s) ==
  /\ o.type = "MESH"
  /\ o.library
  /\ s.is_active
  /\ s.weight_file # ""

\* do_resync returning 0.1 after its pass too.
AfterPassRequeued == "pending"
\* What do_resync returns when the scene is there (line 150): None, the
\* timer is dropped.
AfterPass == "done"
\* What do_resync returns when the scene is not there (line 144): 0.1, the
\* timer stays registered.
AfterWait == "pending"

\* The timer of event e fires: do_resync (lines 142-150).
do_resync(e) ==
  /\ timers[e].state = "pending"
  /\ IF ~scene_ready
     THEN /\ timers' = [timers EXCEPT ![e].state = AfterWait, ![e].requeued = TRUE]
          /\ last' = Record("do_resync", "", None, FALSE, e)
          /\ UNCHANGED obj
     ELSE /\ timers' = [timers EXCEPT ![e].state = AfterPass,
                                      ![e].passes = Min(@ + 1, 2)]
          /\ IF Resyncs(obj, settings)
             THEN LET r == load_weights(obj, settings.weight_file, files) IN
                  /\ obj' = r.obj
                  /\ last' = Record("do_resync", settings.weight_file, r.error, TRUE, e)
             ELSE /\ UNCHANGED obj
                  /\ last' = Record("do_resync", "", None, FALSE, e)
  /\ UNCHANGED <<files, settings, scene_ready, exported, cleared>>

\* The host makes the scene context available.
SceneReady ==
  /\ ~scene_ready
  /\ scene_ready' = TRUE
  /\ UNCHANGED <<obj, files, settings, timers, last, exported, cleared>>

\* The active object becomes o: the user selects another object, or the
\* library the mesh is linked from is reloaded.
Select(o) ==
  /\ obj' = o
  /\ last' = Record("select", "", None, FALSE, 0)
  /\ UNCHANGED <<files, settings, scene_ready, timers, exported, cleared>>

\* ------------------------------------------------------------- documents
\* The documents a file can hold: the keys load_weights reads, each present
\* or not, with any content.  A key that is absent has a fixed filler value.
ItemLists ==
  UNION {{[i \in 1..Len(s) |-> [group |-> s[i], weight |-> w[i]]] :
            w \in [1..Len(s) -> {0, WeightSteps}]} :
         s \in NameOrders}

\* The keys of a vertex map: the first vertex, an index beyond the mesh,
\* and a string that is no number.
KeyStrings == {str(0), str(MaxVerts), <<"x">>}

VertexMaps ==
  UNION {{m \in [1..k -> [key : KeyStrings, groups : ItemLists]] :
            \A i, j \in 1..k : m[i].key = m[j].key => i = j} :
         k \in 0..MaxEntries}

GroupNameLists == UNION {[1..k -> Names] : k \in 0..MaxGroups}

NoValidation == [vertices_with_weights |-> 0, groups_with_weights |-> {},
                 weight_range |-> <<0, 0>>]

\* The keys a document may lack: none, or one of those load_weights reads.
DroppedKeys == {{}, {"vertex_count"}, {"group_names"}, {"vertex_groups"}}

\* The document with the given content, without the keys in dropped.
Document(dropped, vertex_count, group_names, vertex_groups) ==
  [exists |-> TRUE, keys |-> AllKeys \ dropped, object_name |-> "Body",
   vertex_count |-> IF "vertex_count" \in dropped THEN 0 ELSE vertex_count,
   group_names |-> IF "group_names" \in dropped THEN <<>> ELSE group_names,
   vertex_groups |-> IF "vertex_groups" \in dropped THEN <<>> ELSE vertex_groups,
   validation |-> NoValidation]

\* ------------------------------------------------------------- specifications
NoFiles == [p \in Paths |-> NoFile]
NoTimers == [e \in Events |-> NoTimer]

\* The meshes an import is tried on: every arrangement of groups, every
\* vertex at full weight.
TargetMeshes == Meshes({WeightSteps})

\* The importer: any target mesh, any document at GoodPath.
ImportInit ==
  /\ obj \in TargetMeshes
  /\ \E dropped \in DroppedKeys, c \in VertexCounts, g \in GroupNameLists, m \in VertexMaps :
       files = [NoFiles EXCEPT ![GoodPath] = Document(dropped, c, g, m)]
  /\ settings = DefaultSettings
  /\ scene_ready = TRUE
  /\ timers = NoTimers
  /\ last = NoOp
  /\ exported = NoObject
  /\ cleared = FALSE

ImportNext == OT_load(GoodPath)

ImportSpec == ImportInit /\ [][ImportNext]_vars

\* The exporter: any mesh, then an import of what was written, into the
\* same object or into the one the library gives after a reload.
ExportInit ==
  /\ obj \in Meshes(MeshWeights)
  /\ files = NoFiles
  /\ settings = DefaultSettings
  /\ scene_ready = TRUE
  /\ timers = NoTimers
  /\ last = NoOp
  /\ exported = NoObject
  /\ cleared = FALSE

\* After an export the library is reloaded: the object comes back with the
\* same vertices and any groups.
Reload ==
  \E o \in TargetMeshes :
    /\ last.op = "save"
    /\ last.error = None
    /\ o.nverts = obj.nverts
    /\ Select(o)

ExportNext ==
  \/ OT_save(GoodPath)
  \/ Reload
  \/ OT_load(GoodPath)

ExportSpec == ExportInit /\ [][ExportNext]_vars

\* The add-on in a session: the operators, file-open events and the timer.
EmptyObject == [type |-> "EMPTY", name |-> "Empty", library |-> FALSE]

SessionObjects ==
  {NoObject, EmptyObject,
   MeshObject(1, <<>>, TRUE),
   MeshObject(2, <<[name |-> "Arm", weights |-> [v \in 0..1 |-> IF v = 0 THEN 1 ELSE 0]]>>, TRUE),
   MeshObject(2, <<[name |-> "Leg", weights |-> [v \in 0..1 |-> WeightSteps]]>>, FALSE)}

Init ==
  /\ obj \in SessionObjects
  /\ files = NoFiles
  /\ settings = DefaultSettings
  /\ scene_ready = TRUE
  /\ timers = NoTimers
  /\ last = NoOp
  /\ exported = NoObject
  /\ cleared = FALSE

Next ==
  \/ \E path \in Paths : OT_save(path)
  \/ \E path \in Paths : OT_load(path)
  \/ OT_resync
  \/ OT_clear
  \/ \E e \in Events, saved \in BOOLEAN, ready \in BOOLEAN : load_post_handler(e, saved, ready)
  \/ \E e \in Events : do_resync(e)
  \/ SceneReady
  \/ \E o \in SessionObjects : Select(o)

Spec == Init /\ [][Next]_vars

\* The deferred resync: file-open events, the timer and the scene, with
\* the settings set and cleared in between.
TimerInit ==
  /\ obj \in {o \in SessionObjects : IsMesh(o) /\ o.nverts = 2}
  /\ files = NoFiles
  /\ settings = DefaultSettings
  /\ scene_ready = TRUE
  /\ timers = NoTimers
  /\ last = NoOp
  /\ exported = NoObject
  /\ cleared = FALSE

TimerNext ==
  \/ OT_save(GoodPath)
  \/ OT_clear
  \/ \E e \in Events, saved \in BOOLEAN, ready \in BOOLEAN : load_post_handler(e, saved, ready)
  \/ \E e \in Events : do_resync(e)
  \/ SceneReady

\* bpy.app.timers calls every registered function when its delay is over.
TimerSpec == TimerInit /\ [][TimerNext]_vars /\ \A e \in Events : WF_vars(do_resync(e))

\* ------------------------------------------------------------- properties
\* The last operation called load_weights.
Loaded == last.invoked /\ last.op # "save"
\* The document load_weights read (no operation that loads writes a file).
LoadedDocument == files[last.path]
Verts(o) == 0..(o.nverts - 1)

\* C1: load_weights on a mesh, of a document whose vertex_count differs from
\* the mesh's vertex count, returns the vertex-count-mismatch error and
\* leaves the object's vertex groups (names, order, weights) as they were.
C1_MismatchRejected ==
  (/\ Loaded
   /\ IsMesh(last.pre_obj)
   /\ Exists(files, last.path)
   /\ "vertex_count" \in LoadedDocument.keys
   /\ LoadedDocument.vertex_count # last.pre_obj.nverts)
  => /\ last.error = "Vertex count mismatch"
     /\ obj = last.pre_obj

C1_Witness ==
  /\ Loaded
  /\ IsMesh(last.pre_obj)
  /\ Exists(files, last.path)
  /\ "vertex_count" \in LoadedDocument.keys
  /\ LoadedDocument.vertex_count # last.pre_obj.nverts
  /\ Len(last.pre_obj.vertex_groups) = 2
  /\ LoadedDocument.group_names # GroupNames(last.pre_obj.vertex_groups)
  /\ LoadedDocument.vertex_groups # <<>>

\* The object's groups and weights are those of document d: the groups are
\* the ones d names, and every positive weight d stores for a vertex of the
\* mesh is the weight of that vertex in that group.
MatchesDocument(o, d) ==
  /\ AllKeys \subseteq d.keys
  /\ Range(GroupNames(o.vertex_groups)) = Range(d.group_names)
  /\ \A i \in 1..Len(d.vertex_groups) :
       LET entry == d.vertex_groups[i] IN
       \A j \in 1..Len(entry.groups) :
         (int(entry.key) \in Verts(o) /\ entry.groups[j].weight > 0)
         => WeightOf(o.vertex_groups, entry.groups[j].group, int(entry.key))
              = entry.groups[j].weight

\* C2: every call of load_weights either returns no error and leaves the
\* object's groups and weights matching the document, or returns an error
\* and leaves them as they were before the call.
C2_AllOrNothing ==
  Loaded =>
    \/ last.error = None /\ MatchesDocument(obj, LoadedDocument)
    \/ last.error # None /\ obj = last.pre_obj

\* C3: after load_weights returns without error, the object's vertex groups
\* are exactly the groups the document names, whatever groups it had before.
C3_OnlyDocumentGroups ==
  (Loaded /\ last.error = None)
  => Range(GroupNames(obj.vertex_groups)) = Range(LoadedDocument.group_names)

C3_Witness ==
  /\ Loaded
  /\ last.error = None
  /\ Len(last.pre_obj.vertex_groups) = 2
  /\ Len(LoadedDocument.group_names) = 1
  /\ Range(GroupNames(obj.vertex_groups)) = Range(LoadedDocument.group_names)
  /\ obj.vertex_groups # last.pre_obj.vertex_groups

\* C5: load_weights called twice in a row with the same document leaves the
\* object as the first call left it.
C5_Idempotent == last.repeat => obj = last.pre_obj

C5_Witness ==
  /\ last.repeat
  /\ last.error = None
  /\ obj = last.pre_obj
  /\ \E v \in Verts(obj), g \in Names : WeightOf(obj.vertex_groups, g, v) > 0

\* ------------------------------------------------------------- export
\* The document save_weights wrote, while it is on disk.
Written == files[GoodPath].exists /\ IsMesh(exported)
WrittenDocument == files[GoodPath]

\* C4: save_weights, then load_weights of the written document on a mesh
\* of the same vertex count: every vertex/group pair whose weight was
\* positive has that weight, every other pair has no assignment.
C4_RoundTrip ==
  (/\ Written
   /\ Loaded
   /\ last.path = GoodPath
   /\ IsMesh(last.pre_obj)
   /\ last.pre_obj.nverts = exported.nverts)
  => /\ last.error = None
     /\ \A g \in Names, v \in Verts(exported) :
          WeightOf(obj.vertex_groups, g, v)
            = IF WeightOf(exported.vertex_groups, g, v) > 0
              THEN WeightOf(exported.vertex_groups, g, v)
              ELSE NoW

C4_Witness ==
  /\ Written
  /\ Loaded
  /\ last.path = GoodPath
  /\ IsMesh(last.pre_obj)
  /\ last.pre_obj.nverts = exported.nverts
  /\ exported.nverts = MaxVerts
  /\ last.pre_obj.vertex_groups # exported.vertex_groups
  /\ \E g \in Names, v \in Verts(exported) :
       /\ WeightOf(exported.vertex_groups, g, v) = 0
       /\ WeightOf(last.pre_obj.vertex_groups, g, v) > 0
       /\ WeightOf(obj.vertex_groups, g, v) = NoW
  /\ \E g \in Names :
       /\ WeightOf(exported.vertex_groups, g, 0) = 1
       /\ WeightOf(exported.vertex_groups, g, MaxVerts - 1) = WeightSteps
       /\ WeightOf(obj.vertex_groups, g, 0) = 1
       /\ WeightOf(obj.vertex_groups, g, MaxVerts - 1) = WeightSteps

\* The weights stored in a vertex map.
StoredWeights(vertex_groups) ==
  UNION {{vertex_groups[i].groups[j].weight : j \in 1..Len(vertex_groups[i].groups)} :
         i \in 1..Len(vertex_groups)}
\* The group names that occur in a vertex map.
StoredGroups(vertex_groups) ==
  UNION {{vertex_groups[i].groups[j].group : j \in 1..Len(vertex_groups[i].groups)} :
         i \in 1..Len(vertex_groups)}
StoredKeys(vertex_groups) == {vertex_groups[i].key : i \in 1..Len(vertex_groups)}

\* C6: in a document written by save_weights every stored weight is
\* strictly positive, no key maps to an empty map, and a vertex whose weight
\* is zero or unassigned in every group is not a key.
C6_SparseEncoding ==
  Written =>
    /\ \A w \in StoredWeights(WrittenDocument.vertex_groups) : w > 0
    /\ \A i \in 1..Len(WrittenDocument.vertex_groups) :
         WrittenDocument.vertex_groups[i].groups # <<>>
    /\ \A v \in Verts(exported) :
         (\A g \in Names : WeightOf(exported.vertex_groups, g, v) \in {NoW, 0})
         => str(v) \notin StoredKeys(WrittenDocument.vertex_groups)

C6_Witness ==
  /\ Written
  /\ exported.nverts = MaxVerts
  /\ Len(exported.vertex_groups) = 2
  /\ \A g \in Names : WeightOf(exported.vertex_groups, g, 0) = 0
  /\ \E g \in Names : WeightOf(exported.vertex_groups, g, MaxVerts - 1) = 0
  /\ \E g \in Names : WeightOf(exported.vertex_groups, g, MaxVerts - 1) > 0
  /\ StoredKeys(WrittenDocument.vertex_groups) = {str(MaxVerts - 1)}

\* C7 as stated: the validation summary of a written document is derived
\* from its vertex map: the number of keys, the set of groups that occur,
\* and [m, M] with m the smallest and M the largest stored weight.
C7_SummaryOfMap ==
  Written =>
    LET d == WrittenDocument
        ws == StoredWeights(d.vertex_groups)
    IN /\ d.validation.vertices_with_weights = Cardinality(StoredKeys(d.vertex_groups))
       /\ d.validation.groups_with_weights = StoredGroups(d.vertex_groups)
       /\ \E m \in ws, M \in ws :
            /\ \A w \in ws : m <= w /\ w <= M
            /\ d.validation.weight_range = <<m, M>>

\* C7 as amended: as above when the map stores a weight; for a map that
\* stores none, weight_range is [1.0, 0.0].
C7_SummaryOfMapOrStart ==
  Written =>
    LET d == WrittenDocument
        ws == StoredWeights(d.vertex_groups)
    IN /\ d.validation.vertices_with_weights = Cardinality(StoredKeys(d.vertex_groups))
       /\ d.validation.groups_with_weights = StoredGroups(d.vertex_groups)
       /\ IF ws = {}
          THEN d.validation.weight_range = <<WeightSteps, 0>>
          ELSE \E m \in ws, M \in ws :
                 /\ \A w \in ws : m <= w /\ w <= M
                 /\ d.validation.weight_range = <<m, M>>

C7_Witness ==
  /\ Written
  /\ Len(WrittenDocument.group_names) = 2
  /\ Cardinality(WrittenDocument.validation.groups_with_weights) = 1
  /\ WrittenDocument.validation.vertices_with_weights = MaxVerts
  /\ WrittenDocument.validation.weight_range = <<1, WeightSteps>>

\* ------------------------------------------------------------- session
\* C8: Save and Load change the settings only on success: with no error the
\* settings are the chosen path, active; with an error they are what they
\* were before the operator ran.
C8_SettingsOnSuccess ==
  last.op \in {"save", "load"} =>
    IF last.error = None
    THEN settings = [weight_file |-> last.path, is_active |-> TRUE]
    ELSE settings = last.pre_settings

C8_Witness ==
  /\ last.op = "save"
  /\ last.error # None
  /\ last.pre_settings.is_active
  /\ last.pre_settings.weight_file # last.path
  /\ settings = last.pre_settings

\* The callback of event e has been registered.
Registered(e) == timers[e].state \in {"pending", "done"}

\* C9, while the scene is not there: a firing of the callback that finds no
\* scene leaves the callback registered and does not call load_weights.
C9_Waits ==
  (last.op = "do_resync" /\ ~last.pre_scene)
  => /\ timers[last.event].state = "pending"
     /\ ~last.invoked
     /\ obj = last.pre_obj

\* C9, at most once: a pending callback has run no pass, a finished one has
\* run exactly one.
C9_OnePass ==
  \A e \in Events :
    /\ timers[e].state = "pending" => timers[e].passes = 0
    /\ timers[e].state = "done" => timers[e].passes = 1
    /\ timers[e].state \in {"unused", "skipped"} => timers[e].passes = 0

\* C9, never scheduled again: a finished callback stays finished.
C9_StaysDone ==
  [][\A e \in Events : timers[e].state = "done" => timers'[e] = timers[e]]_vars

\* C9, eventually: if the scene is there from some point on, a registered
\* callback finishes.
C9_Runs ==
  \A e \in Events :
    (<>[]scene_ready) => (Registered(e) ~> timers[e].state = "done")

\* C9: for each file-open event on a saved file, do_resync re-queues itself
\* without calling the importer while there is no scene; once the scene is
\* there it runs its pass, exactly once, and is not scheduled again.
C9_DeferredResync == []C9_Waits /\ []C9_OnePass /\ C9_StaysDone /\ C9_Runs

C9_Witness ==
  \E e \in Events :
    /\ timers[e].state = "done"
    /\ timers[e].requeued
    /\ timers[e].passes = 1
    /\ last.op = "do_resync"
    /\ last.event = e
    /\ last.invoked
    /\ last.error = None

\* C10: after a Clear and until a Save or Load succeeds, the settings stay
\* inactive with an empty path, Resync reports an error and neither Resync
\* nor the timer callback calls load_weights.
C10_ClearedStaysCleared ==
  /\ cleared => settings = [weight_file |-> "", is_active |-> FALSE]
  /\ (last.pre_cleared /\ last.op \in {"resync", "do_resync"})
     => /\ ~last.invoked
        /\ cleared
        /\ obj = last.pre_obj
  /\ (last.pre_cleared /\ last.op = "resync")
     => last.error = "No active weight file"

C10_Witness ==
  /\ last.pre_cleared
  /\ last.op = "do_resync"
  /\ last.pre_scene
  /\ timers[last.event].state = "done"
  /\ ~last.invoked
  /\ IsMesh(obj)
  /\ obj.library
  /\ files[GoodPath].exists
  /\ files[GoodPath].vertex_count = obj.nverts
  /\ files[GoodPath].group_names # GroupNames(obj.vertex_groups)

====
